---- MODULE Spec2Model ----
(***************************************************************************)
(* PythonExecute (src/app/tool/python_execute.py): execute() validates the *)
(* code, creates a manager and a shared result dictionary, forks a worker  *)
(* process running _run_code, waits for it with a timeout and returns      *)
(* either the shared record or a timeout record.                           *)
(*                                                                         *)
(* Text is modelled as a sequence of string tokens; NL is a token of       *)
(* whitespace, so that str.strip() and concatenation do what they do in    *)
(* the code.  An absent working_directory (Python None) is the token       *)
(* None; the empty string is a distinct, falsy value.                      *)
(***************************************************************************)
EXTENDS Integers, Sequences, FiniteSets, TLC

\* ------------------------------------------------------------------ bounds
MaxCalls == 2

\* ------------------------------------------------------------ input values
None == "None"
NL == "\n"
Whitespace == {NL, " "}

ExistingDirs == {"/home", "/work", "/tmp"}
WorkingDirectories == {None, "", "/work", "/missing"}
Timeouts == {1, 5}

\* os.path.isdir
isdir(d) == d \in ExistingDirs

\* truth value of an Optional[str]: None and "" are falsy
Truthy(s) == s \notin {None, ""}

\* The snippets: what running the text of `code` does.
\*   parses     ast.parse accepts it
\*   diag       str(e) of the SyntaxError when it does not
\*   out, err   what it prints to sys.stdout / sys.stderr
\*   chdir      directory it os.chdir()s to, or None
\*   sigign     it sets SIGTERM to SIG_IGN
\*   killer     it installs a hook or thread that later calls os._exit
\*   end        "return", "raise" (an Exception), "exit" (SystemExit, a
\*              BaseException that is not an Exception) or "hang"
\*   msg        str(e) of the exception it raises
\*   state      it binds the global name x and rebinds a built-in name, and
\*              prints "leak" first if it finds either already done
Snip(parses, diag, out, err, chdir, sigign, killer, end, msg) ==
    [parses |-> parses, diag |-> diag, out |-> out, err |-> err,
     chdir |-> chdir, sigign |-> sigign, killer |-> killer, end |-> end,
     msg |-> msg, state |-> FALSE]

SnipBadSyntax   == Snip(FALSE, <<"invalid syntax">>, <<>>, <<>>, None, FALSE, FALSE, "return", <<>>)
SnipOutput      == Snip(TRUE, <<>>, <<"T", NL>>, <<>>, None, FALSE, FALSE, "return", <<>>)
SnipWarnChdir   == Snip(TRUE, <<>>, <<"T", NL>>, <<"warn", NL>>, "/tmp", FALSE, FALSE, "return", <<>>)
SnipRaise  == Snip(TRUE, <<>>, <<"T", NL>>, <<NL, "warn">>, "/tmp", FALSE, FALSE, "raise", <<"M">>)
SnipSysExit     == Snip(TRUE, <<>>, <<"T", NL>>, <<>>, None, FALSE, FALSE, "exit", <<>>)
SnipLoop        == Snip(TRUE, <<>>, <<"T", NL>>, <<>>, "/tmp", FALSE, FALSE, "hang", <<>>)
SnipIgnoreTerm  == Snip(TRUE, <<>>, <<"T", NL>>, <<>>, None, TRUE, FALSE, "return", <<>>)
SnipExitHook    == Snip(TRUE, <<>>, <<"T", NL>>, <<>>, None, FALSE, TRUE, "return", <<>>)
SnipState       == [SnipOutput EXCEPT !.state = TRUE]

Codes == {SnipState, SnipBadSyntax, SnipOutput, SnipWarnChdir, SnipRaise, SnipSysExit, SnipLoop, SnipIgnoreTerm, SnipExitHook}

\* ------------------------------------------------------------------- state
VARIABLES
    pc,                 \* position of the caller inside execute()
    code, timeout, working_directory,   \* arguments of the current call
    p_cwd,              \* os.getcwd() of the parent process
    p_stdout,           \* binding of sys.stdout/sys.stderr in the parent
    cwd_before,         \* p_cwd when execute() was entered
    ret,                \* the dictionary execute() returned
    path,               \* which return statement produced ret
    w_at_timeout,       \* where the worker was when proc.join(timeout) timed out
    calls,              \* calls of execute() so far
    managerUp,          \* the manager of the current call is serving
    managers, spawned,  \* managers created / workers started by this call
    result_dict,        \* the manager.dict shared with the worker
    w_pc,               \* position of the worker inside _run_code
    w_cwd,              \* os.getcwd() of the worker process
    w_stdout,           \* binding of sys.stdout/sys.stderr in the worker
    output_buffer, error_buffer,
    original_cwd, cwd_changed_successfully,
    w_sigterm,          \* disposition of SIGTERM in the worker
    w_killer,           \* the snippet armed an os._exit hook
    w_written,          \* fields of result_dict the worker has assigned
    w_ran,              \* exec(code, ...) was entered
    w_exc,              \* str(e) of the exception being handled
    orphans,            \* workers of earlier calls that are still running
    safe_globals,       \* the namespace handed to exec: names bound, built-ins
    p_builtins,         \* the built-in names of the parent process
    prior_state,        \* an earlier call's snippet bound x and a built-in
    inv,                \* concurrent invocations of execute(): each one's locals
    browser, context, dom_service, lock,   \* fields of a BrowserUseTool
    task,               \* position of each coroutine using the BrowserUseTool
    made,               \* browsers and contexts created so far
    checklist,          \* the stored checklist: the status of each task
    upd                 \* the call of UpdateChecklistTaskTool.execute()

callerVars == <<pc, code, timeout, working_directory, p_stdout,
                cwd_before, ret, path, w_at_timeout, calls>>
sharedVars == <<managerUp, managers, spawned, result_dict>>
workerVars == <<w_pc, w_cwd, w_stdout, output_buffer, error_buffer,
                original_cwd, cwd_changed_successfully, w_sigterm, w_killer,
                w_written, w_ran, w_exc>>
nsVars == <<safe_globals, p_builtins, prior_state>>

browserVars == <<browser, context, dom_service, lock, task, made>>

\* what a run of one PythonExecute.execute() call leaves alone
checklistVars == <<checklist, upd>>

otherVars == <<inv, browserVars, checklistVars>>

vars == <<callerVars, p_cwd, sharedVars, workerVars, orphans, nsVars, otherVars>>

\* a namespace with no global bound, over the built-ins b (111-114)
FreshGlobals(b) == [names |-> {}, builtins |-> b]

\* what the snippet c makes of the namespace g it runs in (59)
GlobalsAfter(c, g) ==
    IF c.state THEN [names |-> g.names \cup {"x"}, builtins |-> "patched"] ELSE g

\* what the snippet c prints about the namespace g it finds (59)
StateSeen(c, g) ==
    IF c.state /\ ("x" \in g.names \/ g.builtins = "patched")
    THEN <<"leak">> ELSE <<>>


\* ----------------------------------------------------------- pure helpers
RECURSIVE lstrip(_)
lstrip(s) == IF s # <<>> /\ Head(s) \in Whitespace THEN lstrip(Tail(s)) ELSE s

RECURSIVE rstrip(_)
rstrip(s) == IF s # <<>> /\ s[Len(s)] \in Whitespace
             THEN rstrip(SubSeq(s, 1, Len(s) - 1)) ELSE s

\* str.strip()
strip(s) == rstrip(lstrip(s))

\* traceback.format_exc() for an exception whose str() is m
format_exc(m) == <<"Traceback (most recent call last):", NL>> \o m \o <<NL>>

\* the record execute() puts in the manager.dict (line 110)
Placeholder ==
    [stdout |-> <<>>, stderr |-> <<>>, exit_code |-> -1, success |-> FALSE,
     observation |-> <<>>]

\* error_details and the dictionary returned for a SyntaxError (100-107)
error_details(c) == <<"SyntaxError: ">> \o c.diag \o <<NL>> \o format_exc(c.diag)

SyntaxErrorResult(c) ==
    [stdout |-> <<>>, stderr |-> error_details(c), exit_code |-> 1,
     success |-> FALSE, observation |-> error_details(c)]

\* timeout_message (128-130)
timeout_message(t, wd) ==
    <<"Execution timeout after ", ToString(t), " seconds">>
    \o (IF Truthy(wd) THEN <<" (in working_directory: '", wd, "')">> ELSE <<>>)

\* faulty variant: the timeout path hands back what the worker had put in the record
TimeoutResultKeepsOutput(t, wd) ==
    [stdout |-> result_dict.stdout, stderr |-> timeout_message(t, wd),
     exit_code |-> 1, success |-> FALSE, observation |-> timeout_message(t, wd)]

\* the dictionary returned on the timeout path (131)
TimeoutResult(t, wd) ==
    [stdout |-> <<>>, stderr |-> timeout_message(t, wd), exit_code |-> 1,
     success |-> FALSE, observation |-> timeout_message(t, wd)]

\* str(e) of the FileNotFoundError raised for a bad working_directory (57)
NotADirectoryMessage(wd) ==
    <<"Specified working_directory '", wd, "' does not exist or is not a directory.">>

\* faulty variant: the except block reports the message alone, without what
\* the snippet wrote to stderr and without the trace
ErrorStderrMessageOnly(captured, m) == strip(m)

\* the stderr field written by the except block (66-69)
ErrorStderr(captured, m) == strip(captured \o <<NL>> \o m \o <<NL>> \o format_exc(m))

\* the worker process is running: it has neither left _run_code ("exited")
\* nor been ended by a signal or os._exit ("dead")
WorkerAlive == w_pc \notin {"none", "dead", "exited"}

\* ------------------------------------------- concurrent invocations: state
Callers == {1, 2}

\* a snippet that prints something else than SnipOutput does
SnipShout == [SnipOutput EXCEPT !.out = <<"U", NL>>]

\* what the concurrent callers run
ConcCodes == {SnipBadSyntax, SnipOutput, SnipShout, SnipRaise, SnipLoop}

\* an invocation that has not been made: its arguments, its locals result
\* (the manager.dict) and proc (where its worker is), the worker's
\* output_buffer, what it returned and by which return statement, and
\* whether it ran while another invocation was running
IdleInvocation ==
    [pc |-> "idle", code |-> SnipOutput, timeout |-> 5, result |-> Placeholder,
     proc |-> "none", buffer |-> <<>>, ret |-> Placeholder, path |-> "none",
     overlap |-> FALSE]

InvInit == inv = [i \in Callers |-> IdleInvocation]

\* ------------------------------------------------- BrowserUseTool: state
\* the coroutines that call one BrowserUseTool
Tasks == {1, 2}

\* calls of execute(), of cleanup() and of get_current_state() made in a
\* behaviour
MaxExecutes == 2
MaxCleanups == 2
MaxStates == 1

\* a coroutine that is in no call: where it is, the call it is in, the
\* action asked for and whether its argument was given, its local `context`
\* (248) or `ctx` (580), whether this call created the context, and what the
\* call returned; and how the browser operation of the call ended
IdleTask ==
    [pc |-> "idle", op |-> "none", action |-> "none", given |-> FALSE,
     ctx |-> None, fresh |-> FALSE, result |-> [kind |-> "none", text |-> <<>>],
     outcome |-> "none"]

\* what was made of the session so far: browser and context objects created
\* since the field was last None, all objects created, calls begun, and the
\* context the last action ran on since the context field was last None
NothingMade ==
    [browsers |-> 0, contexts |-> 0, objects |-> 0, executes |-> 0,
     cleanups |-> 0, states |-> 0, used |-> None]

\* lock, browser, context, dom_service as the class declares them (118-121)
BrowserInit ==
    /\ lock = None
    /\ browser = None /\ context = None /\ dom_service = None
    /\ task = [t \in Tasks |-> IdleTask]
    /\ made = NothingMade

\* ------------------------------------------------- checklist tools: state
\* descriptions of tasks, and the enum of new_status (96) next to a status
\* that is not in it
Descriptions == {"a", "b"}
\* ("Concluido" is written here without its accent)
AllowedStatuses == {"Pendente", "Em Andamento", "Concluido", "Bloqueado"}
Statuses == AllowedStatuses \cup {"Feito"}

\* calls of the update tool and of the add tool made in a behaviour
MaxUpdates == 2
MaxAdds == 2

\* no call of UpdateChecklistTaskTool.execute() is running: where it is, its
\* arguments, the tasks its manager loaded, the task it found, how it ended,
\* the calls of update_task_status it made, whether it loaded the
\* checklist, and the stored checklist as it was when the call began
IdleUpdate(c) ==
    [pc |-> "idle", task_description |-> "a", new_status |-> "Pendente",
     tasks |-> c, task_to_update |-> None, result |-> "none",
     updates |-> 0, loaded |-> FALSE, before |-> c, made |-> 0, added |-> 0]

\* an empty checklist and no tool called
ChecklistInit ==
    /\ checklist = [d \in Descriptions |-> None]
    /\ upd = IdleUpdate(checklist)

\* -------------------------------------------------------------------- Init
Init ==
    /\ InvInit
    /\ BrowserInit
    /\ ChecklistInit
    /\ pc = "idle"
    /\ code = SnipOutput /\ timeout = 5 /\ working_directory = None
    /\ p_cwd \in {"/home", "/work"}
    /\ p_stdout = "original"
    /\ cwd_before = p_cwd
    /\ ret = Placeholder /\ path = "none" /\ w_at_timeout = "none"
    /\ calls = 0
    /\ managerUp = FALSE /\ managers = 0 /\ spawned = 0
    /\ result_dict = Placeholder
    /\ w_pc = "none" /\ w_cwd = p_cwd /\ w_stdout = "original"
    /\ output_buffer = <<>> /\ error_buffer = <<>>
    /\ original_cwd = p_cwd /\ cwd_changed_successfully = FALSE
    /\ w_sigterm = "default" /\ w_killer = FALSE
    /\ w_written = 0 /\ w_ran = FALSE /\ w_exc = <<>>
    /\ orphans = 0
    /\ p_builtins = "clean"
    /\ safe_globals = FreshGlobals(p_builtins)
    /\ prior_state = FALSE

\* ------------------------------------------------- the caller: execute()
nsSame == UNCHANGED <<safe_globals, p_builtins, prior_state, otherVars>>

workerReset ==
    /\ w_pc' = "none" /\ w_cwd' = p_cwd /\ w_stdout' = p_stdout
    /\ output_buffer' = <<>> /\ error_buffer' = <<>>
    /\ original_cwd' = p_cwd /\ cwd_changed_successfully' = FALSE
    /\ w_sigterm' = "default" /\ w_killer' = FALSE
    /\ w_written' = 0 /\ w_ran' = FALSE /\ w_exc' = <<>>

\* execute(code, timeout, working_directory) is entered (79-95).  A worker an
\* earlier call left running stays a process of the system: it is counted in
\* orphans and followed no further.
Call(c, t, wd) ==
    /\ pc \in {"idle", "returned"}
    /\ calls < MaxCalls
    /\ calls' = calls + 1
    /\ code' = c /\ timeout' = t /\ working_directory' = wd
    /\ cwd_before' = p_cwd
    /\ ret' = Placeholder /\ path' = "none" /\ w_at_timeout' = "none"
    /\ managers' = 0 /\ spawned' = 0 /\ result_dict' = Placeholder
    /\ orphans' = orphans + (IF WorkerAlive THEN 1 ELSE 0)
    /\ workerReset
    /\ pc' = "parse"
    /\ UNCHANGED <<p_cwd, p_stdout, managerUp>>
    /\ prior_state' = (prior_state \/ (w_ran /\ code.state))
    /\ UNCHANGED <<safe_globals, p_builtins, otherVars>>

\* faulty variant: ast.parse(code) outside any try block, the SyntaxError reaches the
\* caller
ParseUncaught ==
    /\ pc = "parse"
    /\ pc' = IF code.parses THEN "manager" ELSE "raised"
    /\ UNCHANGED <<code, timeout, working_directory, p_stdout, cwd_before,
                   ret, path, w_at_timeout, calls, p_cwd, sharedVars,
                   workerVars, orphans>>
    /\ nsSame

\* faulty variant: no validation before the manager and the worker are created
ParseSkipped ==
    /\ pc = "parse"
    /\ pc' = "manager"
    /\ UNCHANGED <<code, timeout, working_directory, p_stdout, cwd_before,
                   ret, path, w_at_timeout, calls, p_cwd, sharedVars,
                   workerVars, orphans>>
    /\ nsSame

\* try: ast.parse(code) except SyntaxError: return {...} (96-107)
Parse ==
    /\ pc = "parse"
    /\ IF code.parses
       THEN /\ pc' = "manager"
            /\ UNCHANGED <<ret, path>>
       ELSE /\ ret' = SyntaxErrorResult(code)
            /\ path' = "syntax"
            /\ pc' = "returned"
    /\ UNCHANGED <<code, timeout, working_directory, p_stdout, cwd_before,
                   w_at_timeout, calls, p_cwd, sharedVars, workerVars, orphans>>
    /\ nsSame

\* with multiprocessing.Manager() as manager: result = manager.dict({...})
\* (109-114)
CreateManager ==
    /\ pc = "manager"
    /\ managerUp' = TRUE
    /\ managers' = managers + 1
    /\ result_dict' = Placeholder
    /\ pc' = "start"
    /\ UNCHANGED <<code, timeout, working_directory, p_stdout, cwd_before,
                   ret, path, w_at_timeout, calls, p_cwd, spawned, workerVars,
                   orphans>>
    /\ safe_globals' = FreshGlobals(p_builtins)
    /\ UNCHANGED <<p_builtins, prior_state, otherVars>>

\* proc = multiprocessing.Process(target=self._run_code, ...); proc.start()
\* (117-120): the worker starts as a copy of the parent, with the parent's
\* working directory and stream bindings.
Start ==
    /\ pc = "start"
    /\ spawned' = spawned + 1
    /\ w_pc' = "w41"
    /\ w_cwd' = p_cwd /\ w_stdout' = p_stdout
    /\ pc' = "join"
    /\ UNCHANGED <<code, timeout, working_directory, p_stdout, cwd_before,
                   ret, path, w_at_timeout, calls, p_cwd, managerUp, managers,
                   result_dict, output_buffer, error_buffer, original_cwd,
                   cwd_changed_successfully, w_sigterm, w_killer, w_written,
                   w_ran, w_exc, orphans>>
    /\ nsSame

\* proc.join(timeout) returns because the worker has exited (121)
JoinFinished ==
    /\ pc = "join"
    /\ ~WorkerAlive
    /\ pc' = "check"
    /\ UNCHANGED <<code, timeout, working_directory, p_stdout, cwd_before,
                   ret, path, w_at_timeout, calls, p_cwd, sharedVars, workerVars,
                   orphans>>
    /\ nsSame

\* proc.join(timeout) returns because `timeout` seconds have passed and the
\* worker is still running (121)
JoinTimeout ==
    /\ pc = "join"
    /\ WorkerAlive
    /\ w_at_timeout' = w_pc
    /\ pc' = "check"
    /\ UNCHANGED <<code, timeout, working_directory, p_stdout, cwd_before,
                   ret, path, calls, p_cwd, sharedVars, workerVars, orphans>>
    /\ nsSame

\* if proc.is_alive(): ... else: return dict(result) (124, 132); leaving the
\* with block shuts the manager down.
CheckAlive ==
    /\ pc = "check"
    /\ IF WorkerAlive
       THEN /\ pc' = "terminate"
            /\ UNCHANGED <<ret, path, managerUp>>
       ELSE /\ ret' = result_dict
            /\ path' = "record"
            /\ managerUp' = FALSE
            /\ pc' = "returned"
    /\ UNCHANGED <<code, timeout, working_directory, p_stdout, cwd_before,
                   w_at_timeout, calls, p_cwd, managers, spawned, result_dict,
                   workerVars, orphans>>
    /\ nsSame

\* proc.terminate() (125): SIGTERM ends a worker that has the default
\* disposition, and does nothing to one that ignores it or has exited.
Terminate ==
    /\ pc = "terminate"
    /\ w_pc' = IF WorkerAlive /\ w_sigterm = "default" THEN "dead" ELSE w_pc
    /\ pc' = "grace"
    /\ UNCHANGED <<code, timeout, working_directory, p_stdout, cwd_before,
                   ret, path, w_at_timeout, calls, p_cwd, sharedVars, w_cwd,
                   w_stdout, output_buffer, error_buffer, original_cwd,
                   cwd_changed_successfully, w_sigterm, w_killer, w_written,
                   w_ran, w_exc, orphans>>
    /\ nsSame

\* faulty variant: proc.join() with no timeout, which waits for the worker
\* to exit
GraceJoinNoTimeout ==
    /\ pc = "grace"
    /\ ~WorkerAlive
    /\ pc' = "timeout_return"
    /\ UNCHANGED <<code, timeout, working_directory, p_stdout, cwd_before,
                   ret, path, w_at_timeout, calls, p_cwd, sharedVars, workerVars,
                   orphans>>
    /\ nsSame

\* proc.join(1) (126): returns when the worker has exited or after one second
GraceJoin ==
    /\ pc = "grace"
    /\ pc' = "timeout_return"
    /\ UNCHANGED <<code, timeout, working_directory, p_stdout, cwd_before,
                   ret, path, w_at_timeout, calls, p_cwd, sharedVars, workerVars,
                   orphans>>
    /\ nsSame

\* return {"stdout": "", "stderr": timeout_message, ...} (128-131); leaving
\* the with block shuts the manager down.
ReturnTimeout ==
    /\ pc = "timeout_return"
    /\ ret' = TimeoutResult(timeout, working_directory)
    /\ path' = "timeout"
    /\ managerUp' = FALSE
    /\ pc' = "returned"
    /\ UNCHANGED <<code, timeout, working_directory, p_stdout, cwd_before,
                   w_at_timeout, calls, p_cwd, managers, spawned, result_dict,
                   workerVars, orphans>>
    /\ nsSame

\* ------------------------------------------------- the worker: _run_code
callerSame == UNCHANGED <<callerVars, managerUp, managers, spawned, orphans>>

\* faulty variant: _run_code runs in the caller's process (a thread), where os.chdir
\* moves the caller
chdir_in_caller(d) == w_cwd' = d /\ p_cwd' = d

\* os.chdir(d) called in the worker process: the working directory belongs to
\* the process that calls it (53, 59, 77 run in the process started at 120)
chdir(d) == w_cwd' = d /\ p_cwd' = p_cwd

\* faulty variant: exec runs in the caller's process, on the built-ins
\* dictionary of line 112 itself
exec_globals_in_caller(g) == safe_globals' = g /\ p_builtins' = g.builtins

\* exec(code, safe_globals, safe_globals) binds names in the worker's copy of
\* the namespace and of the built-ins (59, run in the process started at 120)
exec_globals(g) == safe_globals' = g /\ p_builtins' = p_builtins

\* what a worker step that rebinds the streams leaves alone in the caller
callerSameButStreams ==
    UNCHANGED <<pc, code, timeout, working_directory, cwd_before, ret, path,
                w_at_timeout, calls, managerUp, managers, spawned, orphans>>

\* faulty variant: _run_code runs in the caller's process, where the
\* assignment rebinds the caller's sys.stdout and sys.stderr
set_sys_streams_in_caller(b) == w_stdout' = b /\ p_stdout' = b

\* sys.stdout = ...; sys.stderr = ... assigned in the worker process: the sys
\* module of the process started at 120 is the one rebound (47-48, 74-75)
set_sys_streams(b) == w_stdout' = b /\ p_stdout' = p_stdout

\* original_stdout = sys.stdout ... sys.stderr = error_buffer (41-48)
Redirect ==
    /\ w_pc = "w41"
    /\ original_cwd' = w_cwd
    /\ cwd_changed_successfully' = FALSE
    /\ output_buffer' = <<>> /\ error_buffer' = <<>>
    /\ set_sys_streams("buffer")
    /\ w_pc' = "w51"
    /\ callerSameButStreams
    /\ UNCHANGED <<p_cwd, w_cwd, result_dict, w_sigterm, w_killer, w_written,
                   w_ran, w_exc>>
    /\ nsSame

\* faulty variant: a working_directory that is no directory is skipped, not rejected
CheckWorkingDirectoryNoRaise ==
    /\ w_pc = "w51"
    /\ IF Truthy(working_directory) /\ isdir(working_directory)
       THEN /\ w_cwd' = working_directory
            /\ cwd_changed_successfully' = TRUE
       ELSE UNCHANGED <<w_cwd, cwd_changed_successfully>>
    /\ w_pc' = "w59"
    /\ callerSame
    /\ UNCHANGED <<p_cwd, w_exc, result_dict, w_stdout, output_buffer,
                   error_buffer, original_cwd, w_sigterm, w_killer, w_written,
                   w_ran>>
    /\ nsSame

\* if working_directory: if os.path.isdir(...): os.chdir(...) else: raise
\* FileNotFoundError(...) (51-57)
CheckWorkingDirectory ==
    /\ w_pc = "w51"
    /\ IF Truthy(working_directory)
       THEN IF isdir(working_directory)
            THEN /\ chdir(working_directory)
                 /\ cwd_changed_successfully' = TRUE
                 /\ w_pc' = "w59"
                 /\ UNCHANGED w_exc
            ELSE /\ w_exc' = NotADirectoryMessage(working_directory)
                 /\ w_pc' = "w66"
                 /\ UNCHANGED <<p_cwd, w_cwd, cwd_changed_successfully>>
       ELSE /\ w_pc' = "w59"
            /\ UNCHANGED <<p_cwd, w_cwd, cwd_changed_successfully, w_exc>>
    /\ callerSame
    /\ UNCHANGED <<result_dict, w_stdout, output_buffer, error_buffer,
                   original_cwd, w_sigterm, w_killer, w_written, w_ran>>
    /\ nsSame

\* exec(code, safe_globals, safe_globals) is entered and the snippet does
\* what it does before it ends (59)
ExecBegin ==
    /\ w_pc = "w59"
    /\ w_ran' = TRUE
    /\ output_buffer' = output_buffer \o StateSeen(code, safe_globals) \o code.out
    /\ exec_globals(GlobalsAfter(code, safe_globals))
    /\ UNCHANGED <<prior_state, otherVars>>
    /\ error_buffer' = error_buffer \o code.err
    /\ IF code.chdir # None THEN chdir(code.chdir) ELSE UNCHANGED <<p_cwd, w_cwd>>
    /\ w_sigterm' = IF code.sigign THEN "ignore" ELSE w_sigterm
    /\ w_killer' = code.killer
    /\ w_pc' = "running"
    /\ callerSame
    /\ UNCHANGED <<result_dict, w_stdout, original_cwd,
                   cwd_changed_successfully, w_written, w_exc>>

\* exec(...) ends (59): it returns, raises an Exception (caught at 65), or
\* raises SystemExit, which `except Exception` does not catch, so that only
\* the finally block runs.  A snippet that loops never ends.
ExecEnd ==
    /\ w_pc = "running"
    /\ code.end # "hang"
    /\ w_pc' = CASE code.end = "return" -> "w60"
                 [] code.end = "raise"  -> "w66"
                 [] code.end = "exit"   -> "w74"
    /\ w_exc' = IF code.end = "raise" THEN code.msg ELSE w_exc
    /\ callerSame
    /\ UNCHANGED <<p_cwd, w_cwd, result_dict, w_stdout, output_buffer,
                   error_buffer, original_cwd, cwd_changed_successfully,
                   w_sigterm, w_killer, w_written, w_ran>>
    /\ nsSame

writeFrame ==
    /\ callerSame
    /\ UNCHANGED <<p_cwd, w_cwd, w_stdout, output_buffer, error_buffer,
                   original_cwd, cwd_changed_successfully, w_sigterm,
                   w_killer, w_ran>>

\* result_dict[field] = value inside the try block (60-64): one request to
\* the manager; with the manager gone it raises, and the except block runs
TryAssign(at, field, value, next) ==
    /\ w_pc = at
    /\ IF managerUp
       THEN /\ result_dict' = [result_dict EXCEPT ![field] = value]
            /\ w_written' = w_written + 1
            /\ w_pc' = next
            /\ UNCHANGED w_exc
       ELSE /\ w_exc' = <<"ConnectionError">>
            /\ w_pc' = "w66"
            /\ UNCHANGED <<result_dict, w_written>>
    /\ writeFrame
    /\ nsSame

\* result_dict[field] = value inside the except block (68-72); with the
\* manager gone it raises out of the handler, and the finally block runs
ExceptAssign(at, field, value, count, next) ==
    /\ w_pc = at
    /\ IF managerUp
       THEN /\ result_dict' = [result_dict EXCEPT ![field] = value]
            /\ w_written' = count
            /\ w_pc' = next
       ELSE /\ w_pc' = "w74"
            /\ UNCHANGED <<result_dict, w_written>>
    /\ UNCHANGED w_exc
    /\ writeFrame
    /\ nsSame

Write60 == TryAssign("w60", "stdout", output_buffer, "w61")
Write61 == TryAssign("w61", "stderr", error_buffer, "w62")
Write62 == TryAssign("w62", "exit_code", 0, "w63")
Write63 == TryAssign("w63", "success", TRUE, "w64")
Write64 == TryAssign("w64", "observation", result_dict.stdout, "w74")

Write68 == ExceptAssign("w66", "stdout", output_buffer, 1, "w69")
Write69 == ExceptAssign("w69", "stderr", ErrorStderr(error_buffer, w_exc), 2, "w70")
Write70 == ExceptAssign("w70", "exit_code", 1, 3, "w71")
Write71 == ExceptAssign("w71", "success", FALSE, 4, "w72")
Write72 == ExceptAssign("w72", "observation", result_dict.stderr, 5, "w74")

\* faulty variant: the finally block does not rebind sys.stdout and sys.stderr
FinallyKeepsRedirect ==
    /\ w_pc = "w74"
    /\ IF cwd_changed_successfully THEN w_cwd' = original_cwd
                                   ELSE UNCHANGED w_cwd
    /\ w_pc' = "exited"
    /\ callerSame
    /\ UNCHANGED <<p_cwd, w_stdout, result_dict, output_buffer, error_buffer,
                   original_cwd, cwd_changed_successfully, w_sigterm,
                   w_killer, w_written, w_ran, w_exc>>
    /\ nsSame

\* faulty variant: the finally block does not go back to original_cwd
FinallyKeepsDirectory ==
    /\ w_pc = "w74"
    /\ w_stdout' = "original"
    /\ w_pc' = "exited"
    /\ callerSame
    /\ UNCHANGED <<p_cwd, w_cwd, result_dict, output_buffer, error_buffer,
                   original_cwd, cwd_changed_successfully, w_sigterm,
                   w_killer, w_written, w_ran, w_exc>>
    /\ nsSame

\* finally: sys.stdout = original_stdout; sys.stderr = original_stderr;
\* if cwd_changed_successfully: os.chdir(original_cwd) (73-77); _run_code is
\* over and the worker process exits.
Finally ==
    /\ w_pc = "w74"
    /\ set_sys_streams("original")
    /\ IF cwd_changed_successfully THEN chdir(original_cwd)
                                   ELSE UNCHANGED <<p_cwd, w_cwd>>
    /\ w_pc' = "exited"
    /\ callerSameButStreams
    /\ UNCHANGED <<result_dict, output_buffer, error_buffer, original_cwd,
                   cwd_changed_successfully, w_sigterm, w_killer, w_written,
                   w_ran, w_exc>>
    /\ nsSame

\* the hook or thread the snippet installed calls os._exit: the worker ends
\* where it is, without running the finally block
HookExit ==
    /\ w_killer
    /\ WorkerAlive
    /\ w_pc' = "dead"
    /\ callerSame
    /\ UNCHANGED <<p_cwd, w_cwd, result_dict, w_stdout, output_buffer,
                   error_buffer, original_cwd, cwd_changed_successfully,
                   w_sigterm, w_killer, w_written, w_ran, w_exc>>
    /\ nsSame

\* ------------------------------------------------------------------- Next
Next ==
    \/ \E c \in Codes, t \in Timeouts, wd \in WorkingDirectories : Call(c, t, wd)
    \/ Parse
    \/ CreateManager
    \/ Start
    \/ JoinFinished
    \/ JoinTimeout
    \/ CheckAlive
    \/ Terminate
    \/ GraceJoin
    \/ ReturnTimeout
    \/ Redirect
    \/ CheckWorkingDirectory
    \/ ExecBegin
    \/ ExecEnd
    \/ Write60 \/ Write61 \/ Write62 \/ Write63 \/ Write64
    \/ Write68 \/ Write69 \/ Write70 \/ Write71 \/ Write72
    \/ Finally
    \/ HookExit

Spec == Init /\ [][Next]_vars

\* ----------------------------------------------------------------- claims
ResultFields == {"stdout", "stderr", "exit_code", "success", "observation"}

\* the text s contains the token tok
Mentions(s, tok) == \E i \in DOMAIN s : s[i] = tok

Returned == pc = "returned"

\* the working_directory argument counts as given when the code treats it as
\* given: a non-empty string
BadWorkingDirectory == Truthy(working_directory) /\ ~isdir(working_directory)

\* C1: after execute returns, on every return path, the parent's working
\* directory is the one it had when execute was called, whatever the worker
\* did to its own.
C1_ParentCwdPreserved == Returned => p_cwd = cwd_before

\* a timed-out call whose snippet had moved the worker to another directory
C1_Witness ==
    /\ Returned /\ path = "timeout" /\ w_ran
    /\ w_cwd # p_cwd /\ p_cwd = cwd_before

\* C2: when execute returns after having started a worker, the worker is no
\* longer running.
C2_WorkerGoneOnReturn == (Returned /\ spawned > 0) => ~WorkerAlive

\* C3: execute never raises to its caller; when it has returned, what it
\* returned is a record of exactly the five result fields.
C3_NoExceptionToCaller ==
    /\ pc # "raised"
    /\ Returned => DOMAIN ret = ResultFields

\* a returned call whose snippet raised an exception in the worker
C3_Witness ==
    /\ Returned /\ path = "record" /\ w_ran /\ code.end = "raise"
    /\ ret.success = FALSE

\* C4: every returned exit_code is 0 or 1, and it is 0 only for a snippet
\* that ran to completion in the worker.
C4_ExitCodeZeroOrOne ==
    Returned =>
        /\ ret.exit_code \in {0, 1}
        /\ ret.exit_code = 0 => (path = "record" /\ w_ran /\ code.end = "return")

\* C5: in every returned result, success is true exactly when exit_code is 0.
C5_SuccessIffExitCodeZero == Returned => (ret.success <=> ret.exit_code = 0)

\* C6: every returned result is the syntax rejection, the timeout record, or
\* a record the worker wrote in full; never the initial placeholder, never a
\* record with only some fields written.
C6_OneOutcomeDecides ==
    Returned =>
        \/ path = "syntax" /\ ~code.parses /\ ret = SyntaxErrorResult(code)
        \/ path = "timeout" /\ ret = TimeoutResult(timeout, working_directory)
        \/ path = "record" /\ w_written = 5 /\ ret # Placeholder

\* the worker had not yet finished the snippet when proc.join(timeout) ended
SnippetOutlastedTimeout == w_at_timeout \in {"w41", "w51", "w59", "running"}

\* C7: if the snippet was still running when the wait of `timeout` seconds
\* ended, execute returns the timeout failure and not the worker's record.
C7_TimeoutAlwaysReported ==
    (Returned /\ SnippetOutlastedTimeout) =>
        /\ path = "timeout"
        /\ ~ret.success
        /\ Mentions(ret.stderr, ToString(timeout))

\* C8: on the timeout path the result is exit_code 1, success false, empty
\* stdout, and stderr = observation = the message stating the timeout, which
\* names working_directory exactly when one was given; nothing of the
\* worker's buffers or of the shared record is in it.
C8_TimeoutRecord ==
    (Returned /\ path = "timeout") =>
        /\ ret.exit_code = 1 /\ ~ret.success
        /\ ret.stdout = <<>>
        /\ ret.stderr = ret.observation
        /\ Mentions(ret.stderr, ToString(timeout))
        /\ Mentions(ret.stderr, working_directory) <=> Truthy(working_directory)
        /\ Len(ret.stderr) = IF Truthy(working_directory) THEN 6 ELSE 3
        /\ \A i \in DOMAIN output_buffer : ~Mentions(ret.stderr, output_buffer[i])

\* a timed-out call with a working directory whose worker had already put
\* its captured output in the shared record
C8_Witness ==
    /\ Returned /\ path = "timeout" /\ Truthy(working_directory)
    /\ result_dict.stdout # <<>> /\ output_buffer # <<>>
    /\ ret.stdout = <<>>

\* C9: for code that does not parse no manager is created, no worker is
\* started and the snippet never runs; the result is exit_code 1, success
\* false, empty stdout and stderr = observation = the syntax diagnostic.
C9_SyntaxRejection ==
    (calls > 0 /\ ~code.parses) =>
        /\ managers = 0 /\ spawned = 0 /\ w_pc = "none" /\ ~w_ran
        /\ Returned =>
            /\ ret.exit_code = 1 /\ ~ret.success
            /\ ret.stdout = <<>>
            /\ ret.stderr = ret.observation
            /\ \A i \in DOMAIN code.diag : Mentions(ret.stderr, code.diag[i])

\* a returned call whose code did not parse
C9_Witness == Returned /\ ~code.parses /\ path = "syntax" /\ calls > 0

\* what C10 says of a call whose working_directory is no directory
BadDirectoryOutcome ==
    /\ ~w_ran
    /\ w_pc # "none" => w_cwd = p_cwd
    /\ Returned =>
        /\ ret.exit_code = 1 /\ ~ret.success
        /\ ret.stderr = ret.observation
        /\ Mentions(ret.stderr, working_directory)

\* C10 as stated: for every call with a working_directory that is no
\* existing directory the snippet is not run, the worker stays in its
\* directory, and the result is a failure whose stderr = observation names
\* the path.
C10_BadDirectoryRejected ==
    (calls > 0 /\ BadWorkingDirectory) => BadDirectoryOutcome

\* C10 amended: the same, for code that parses.
C10_BadDirectoryRejectedWhenParsed ==
    (calls > 0 /\ code.parses /\ BadWorkingDirectory) => BadDirectoryOutcome

\* a call with a missing directory whose worker wrote the whole error record
C10_Witness ==
    /\ Returned /\ path = "record" /\ code.parses /\ BadWorkingDirectory
    /\ w_written = 5 /\ ret.exit_code = 1

\* C11: in every returned result, observation is stdout when success is
\* true and stderr when success is false.
C11_ObservationMirrors ==
    Returned => ret.observation = (IF ret.success THEN ret.stdout ELSE ret.stderr)

\* the worker is at an assignment to result_dict (60-64, 68-72)
AtRecordWrite ==
    w_pc \in {"w60", "w61", "w62", "w63", "w64", "w66", "w69", "w70", "w71", "w72"}

C13_WorkerStateRestored ==
    w_pc = "exited" => (w_stdout = "original" /\ w_cwd = original_cwd)

\* the snippet changed directory and no working_directory had been applied
SnippetAloneChangedDirectory ==
    w_ran /\ code.chdir # None /\ ~cwd_changed_successfully

\* C13 amended: the bindings are always back; the directory is back when
\* working_directory was applied or the snippet did not change it, and a
\* change the snippet made on its own stays.
C13_WorkerStateRestoredWhenArgumentApplied ==
    w_pc = "exited" =>
        /\ w_stdout = "original"
        /\ ~SnippetAloneChangedDirectory => w_cwd = original_cwd
        /\ SnippetAloneChangedDirectory => w_cwd = code.chdir

\* _run_code has finished for a call with a working_directory whose snippet
\* moved elsewhere, and the worker is back where it started
C13_Witness ==
    /\ w_pc = "exited" /\ w_ran /\ cwd_changed_successfully
    /\ code.chdir # None /\ code.chdir # working_directory
    /\ w_cwd = original_cwd

\* p is the beginning of s
IsPrefix(p, s) == Len(p) <= Len(s) /\ SubSeq(s, 1, Len(p)) = p

\* the text after the first n tokens of s
Drop(s, n) == SubSeq(s, n + 1, Len(s))

\* execute returned the worker's record for a snippet that printed and then
\* raised
RaisedAfterOutput ==
    /\ Returned /\ path = "record"
    /\ w_ran /\ code.end = "raise" /\ code.out # <<>>

CompletedBeforeTimeout ==
    /\ Returned /\ code.parses
    /\ w_ran /\ code.end = "return" /\ w_written >= 1
    /\ w_at_timeout = "none"

\* C15: for a snippet that prints T and completes without raising before
\* the timeout, execute returns the worker's record: success true, exit_code
\* 0, stdout T and observation T.
C15_CompletedRunReturned ==
    CompletedBeforeTimeout =>
        /\ path = "record" /\ ret = result_dict
        /\ ret.success /\ ret.exit_code = 0
        /\ ret.stdout = code.out
        /\ ret.observation = code.out

\* C16: nothing a snippet binds survives its call: the parent's built-ins
\* stay as they were, every exec starts from a namespace with no global
\* bound and clean built-ins, and no returned stdout reports a name or a
\* built-in left by an earlier call.
C16_NoStateBetweenCalls ==
    /\ p_builtins = "clean"
    /\ w_pc = "w59" => safe_globals = FreshGlobals("clean")
    /\ Returned => ~Mentions(ret.stdout, "leak")

\* the second of two calls whose snippets both bind x and a built-in has
\* returned the record of a successful run
C16_Witness ==
    /\ calls = 2 /\ prior_state
    /\ Returned /\ path = "record" /\ code.state /\ w_ran
    /\ ret.success /\ ret.stdout = code.out

\* ------------------------------- concurrent invocations of execute()
\* The invocations of several callers (threads) on one PythonExecute, with
\* no working_directory.  Every name execute() assigns is a local of the
\* invocation.
pyVars == <<callerVars, p_cwd, sharedVars, workerVars, orphans, nsVars>>

concFrame == UNCHANGED <<pyVars, browserVars, checklistVars>>

InFlight(i) == inv[i].pc \notin {"idle", "returned"}

InvAlive(i) == inv[i].proc \notin {"none", "dead", "exited"}

\* faulty variant: one dictionary kept on the tool and used by every invocation
SharedRecord(i) == 1

\* the dictionary invocation i's worker writes and invocation i reads: its
\* own `result`, created at 110 and passed to its worker at 118
RecordOf(i) == i

\* execute(code, timeout) is entered by caller i (79-95)
ConcCall(i, c, t) ==
    /\ inv[i].pc = "idle"
    /\ inv' = [inv EXCEPT ![i].pc = "parse", ![i].code = c, ![i].timeout = t,
                          ![i].overlap = \E j \in Callers \ {i} : InFlight(j)]
    /\ concFrame

\* try: ast.parse(code) except SyntaxError: return {...} (96-107)
ConcParse(i) ==
    /\ inv[i].pc = "parse"
    /\ inv' = IF inv[i].code.parses
              THEN [inv EXCEPT ![i].pc = "manager"]
              ELSE [inv EXCEPT ![i].pc = "returned", ![i].path = "syntax",
                               ![i].ret = SyntaxErrorResult(inv[i].code)]
    /\ concFrame

\* with multiprocessing.Manager() as manager: result = manager.dict({...});
\* proc = multiprocessing.Process(...); proc.start() (109-120)
ConcStart(i) ==
    /\ inv[i].pc = "manager"
    /\ inv' = [inv EXCEPT ![RecordOf(i)].result = Placeholder,
                          ![i].proc = "w41", ![i].pc = "join"]
    /\ concFrame

\* proc.join(timeout) returns: the worker has exited or the time is up (121)
ConcJoin(i) ==
    /\ inv[i].pc = "join"
    /\ inv' = [inv EXCEPT ![i].pc = "check"]
    /\ concFrame

\* if proc.is_alive(): ... else: return dict(result) (124, 132)
ConcCheckAlive(i) ==
    /\ inv[i].pc = "check"
    /\ inv' = IF InvAlive(i)
              THEN [inv EXCEPT ![i].pc = "terminate"]
              ELSE [inv EXCEPT ![i].pc = "returned", ![i].path = "record",
                               ![i].ret = inv[RecordOf(i)].result]
    /\ concFrame

\* proc.terminate(); proc.join(1) (125-126): the worker, which keeps the
\* default disposition of SIGTERM, ends if it was running
ConcTerminate(i) ==
    /\ inv[i].pc = "terminate"
    /\ inv' = [inv EXCEPT ![i].pc = "timeout_return",
                          ![i].proc = IF InvAlive(i) THEN "dead" ELSE @]
    /\ concFrame

\* return {"stdout": "", "stderr": timeout_message, ...} (128-131)
ConcReturnTimeout(i) ==
    /\ inv[i].pc = "timeout_return"
    /\ inv' = [inv EXCEPT ![i].pc = "returned", ![i].path = "timeout",
                          ![i].ret = TimeoutResult(inv[i].timeout, None)]
    /\ concFrame

\* the worker of invocation i redirects its streams and enters exec, and the
\* snippet prints (41-59)
ConcExecBegin(i) ==
    /\ inv[i].proc = "w41"
    /\ inv' = [inv EXCEPT ![i].proc = "running", ![i].buffer = inv[i].code.out]
    /\ concFrame

\* exec ends by returning or by raising (59, 65)
ConcExecEnd(i) ==
    /\ inv[i].proc = "running"
    /\ inv[i].code.end \in {"return", "raise"}
    /\ inv' = [inv EXCEPT ![i].proc = IF inv[i].code.end = "return"
                                      THEN "w60" ELSE "w66"]
    /\ concFrame

\* the assignment to result_dict the worker is at (60-64, 68-72): the field,
\* the value and the worker's next position
ConcAssignment(i) ==
    LET c == inv[i].code
        d == inv[RecordOf(i)].result
        at == inv[i].proc
    IN CASE at = "w60" -> <<"stdout", inv[i].buffer, "w61">>
         [] at = "w61" -> <<"stderr", c.err, "w62">>
         [] at = "w62" -> <<"exit_code", 0, "w63">>
         [] at = "w63" -> <<"success", TRUE, "w64">>
         [] at = "w64" -> <<"observation", d.stdout, "w74">>
         [] at = "w66" -> <<"stdout", inv[i].buffer, "w69">>
         [] at = "w69" -> <<"stderr", ErrorStderr(c.err, c.msg), "w70">>
         [] at = "w70" -> <<"exit_code", 1, "w71">>
         [] at = "w71" -> <<"success", FALSE, "w72">>
         [] at = "w72" -> <<"observation", d.stderr, "w74">>

\* the worker of invocation i assigns one field of the dictionary it was
\* given
ConcWrite(i) ==
    /\ inv[i].proc \in {"w60", "w61", "w62", "w63", "w64",
                        "w66", "w69", "w70", "w71", "w72"}
    /\ LET a == ConcAssignment(i)
       IN inv' = [inv EXCEPT ![RecordOf(i)].result[a[1]] = a[2],
                             ![i].proc = a[3]]
    /\ concFrame

\* the finally block runs and the worker exits (73-77)
ConcFinally(i) ==
    /\ inv[i].proc = "w74"
    /\ inv' = [inv EXCEPT ![i].proc = "exited"]
    /\ concFrame

NextConc ==
    \E i \in Callers :
        \/ \E c \in ConcCodes, t \in Timeouts : ConcCall(i, c, t)
        \/ ConcParse(i)
        \/ ConcStart(i)
        \/ ConcJoin(i)
        \/ ConcCheckAlive(i)
        \/ ConcTerminate(i)
        \/ ConcReturnTimeout(i)
        \/ ConcExecBegin(i)
        \/ ConcExecEnd(i)
        \/ ConcWrite(i)
        \/ ConcFinally(i)

\* no invocation made yet, the process in one directory
InitConc == Init /\ p_cwd = "/home"

SpecConc == InitConc /\ [][NextConc]_vars

\* the fields of a record that only invocation i's snippet and timeout
\* could have produced
OwnResult(i) ==
    LET r == inv[i].ret
        c == inv[i].code
    IN /\ r.stdout \in {<<>>, c.out}
       /\ r.observation \in {<<>>, r.stdout, r.stderr}
       /\ inv[i].path = "syntax" => r = SyntaxErrorResult(c)
       /\ inv[i].path = "timeout" => r = TimeoutResult(inv[i].timeout, None)
       /\ inv[i].path = "record" =>
             /\ r.stdout = c.out
             /\ r.stderr = IF c.end = "return" THEN c.err
                                               ELSE ErrorStderr(c.err, c.msg)
             /\ r.exit_code = IF c.end = "return" THEN 0 ELSE 1
             /\ r.success = (c.end = "return")

\* C17: whatever the interleaving of concurrent invocations, each started
\* invocation has a worker of its own, and what it returns was produced by
\* its own snippet and its own timeout.
C17_InvocationsIndependent ==
    \A i \in Callers :
        /\ inv[i].pc \in {"join", "check", "terminate", "timeout_return"}
              => inv[i].proc # "none"
        /\ inv[i].pc = "returned" => OwnResult(i)

\* two invocations that ran at the same time have returned, one the record
\* of a snippet printing T, the other the record of a snippet printing U
C17_Witness ==
    /\ inv[1].pc = "returned" /\ inv[2].pc = "returned"
    /\ inv[2].overlap
    /\ inv[1].path = "record" /\ inv[1].ret.stdout = <<"T", NL>> /\ inv[1].ret.success
    /\ inv[2].path = "record" /\ inv[2].ret.stdout = <<"U", NL>> /\ inv[2].ret.success

\* C18: when execute() has returned, sys.stdout and sys.stderr of the calling
\* process are bound as they were before the call, whether the worker
\* restored its own streams or was terminated with them redirected.
C18_ParentStreamsPreserved == Returned => p_stdout = "original"

\* the call timed out and returned while the worker, terminated before its
\* finally block, still had its streams on the buffers
C18_Witness ==
    /\ Returned /\ path = "timeout"
    /\ w_pc = "dead" /\ w_stdout = "buffer"
    /\ p_stdout = "original"

\* ------------------------------------------------------------ progress
\* The statements of execute() run in the calling thread one after another,
\* and each of its waits is bounded: join(timeout) at 121 and join(1) at 126
\* return when the time is up, is_alive and terminate do not block.  So a
\* step of the call that is possible is eventually taken.  Nothing is
\* assumed of the worker, which may run forever.
CallerStep ==
    \/ Parse
    \/ CreateManager
    \/ Start
    \/ JoinFinished
    \/ JoinTimeout
    \/ CheckAlive
    \/ Terminate
    \/ GraceJoin
    \/ ReturnTimeout

FairSpec == Spec /\ WF_vars(CallerStep)

\* C19: every call of execute() that was made eventually returns a record,
\* whatever the worker does: finish, run forever, or survive the termination
\* signal.
C19_CallEventuallyReturns == (pc \notin {"idle", "returned"}) ~> Returned

\* a call has returned although its worker, which ignores the termination
\* signal, is still running its snippet
C19_Witness ==
    /\ Returned /\ path = "timeout"
    /\ WorkerAlive /\ w_sigterm = "ignore"
    /\ ret = TimeoutResult(timeout, working_directory)

\* ------------------------------------------- BrowserUseTool: the session
\* Coroutines of one event loop calling execute(), cleanup() and
\* get_current_state() of one BrowserUseTool; a step runs from one await to
\* the next.
browserFrame == UNCHANGED <<pyVars, inv, checklistVars>>

\* the value of the lock while coroutine t is inside its async with block
Holder(t) == ToString(t)

\* a new browser or context object, unlike every one made before
NewObject == ToString(made.objects + 1)

\* ToolResult(output=text) and ToolResult(error=text)
Output(text) == [kind |-> "output", text |-> text]
Error(text) == [kind |-> "error", text |-> text]

\* the call did not return: CancelledError left it
Cancelled == [kind |-> "cancelled", text |-> <<>>]

\* the exception e left execute()
Raised(e) == [kind |-> "raised", text |-> <<e>>]

\* the branches of execute() (256-558)
KnownActions == {"go_to_url", "click_element", "go_back"}

\* the actions a caller asks for; no branch of execute() is named "fly"
BrowserActions == KnownActions \cup {"fly"}

\* the branches that begin by checking an argument (257, 316)
RequiresArgument(a) == a \in {"go_to_url", "click_element"}

\* how the browser operation of an action ends
Outcomes == {"ok", "raise", "timeout"}

\* faulty variant: no handler around the body of execute()
general_handler_missing(a, e) == Raised(e)

\* except asyncio.TimeoutError / except Exception around the body of
\* execute() (562-569)
general_handler(a, e) ==
    IF e = "timeout" THEN Error(<<"Timeout na acao do navegador", a, e>>)
                     ELSE Error(<<"Falha geral na acao do navegador", a, e>>)

\* what the branch of action a returns (256-560): an unknown action and a
\* missing argument are errors, and so is whatever its browser operation
\* raises, caught by the handlers of the branch
action_result(a, given, outcome) ==
    IF a \notin KnownActions THEN Error(<<"Unknown action:", a>>)
    ELSE IF RequiresArgument(a) /\ ~given THEN Error(<<"is required for", a>>)
    ELSE IF outcome = "ok" THEN Output(<<a>>)
    ELSE IF outcome = "timeout" /\ a = "go_to_url"
         THEN Error(<<"Timeout durante", a>>)
    ELSE Error(<<"Erro", a>>)

\* faulty variant: a context is asked for on every call
ContextMissingAlways == TRUE

\* if self.context is None: (176)
ContextMissing == context = None

\* execute(action, ...) is called and waits at async with self.lock (246)
ExecuteCall(t, a, given) ==
    /\ task[t].pc = "idle"
    /\ made.executes < MaxExecutes
    /\ task' = [task EXCEPT ![t] = [IdleTask EXCEPT !.pc = "lock",
                                                    !.op = "execute",
                                                    !.action = a,
                                                    !.given = given]]
    /\ made' = [made EXCEPT !.executes = @ + 1]
    /\ UNCHANGED <<browser, context, dom_service, lock>>
    /\ browserFrame

\* cleanup() is called and waits at async with self.lock (635)
CleanupCall(t) ==
    /\ task[t].pc = "idle"
    /\ made.cleanups < MaxCleanups
    /\ task' = [task EXCEPT ![t] = [IdleTask EXCEPT !.pc = "lock",
                                                    !.op = "cleanup"]]
    /\ made' = [made EXCEPT !.cleanups = @ + 1]
    /\ UNCHANGED <<browser, context, dom_service, lock>>
    /\ browserFrame

\* faulty variant: the body is entered without the lock being free
LockFreeAlways == TRUE

\* the lock is not held: async with self.lock can be entered
LockFree == lock = None

\* async with self.lock: entered by execute() (246)
ExecuteAcquire(t) ==
    /\ task[t].pc = "lock" /\ task[t].op = "execute"
    /\ LockFree
    /\ lock' = Holder(t)
    /\ task' = [task EXCEPT ![t].pc = "ensure"]
    /\ UNCHANGED <<browser, context, dom_service, made>>
    /\ browserFrame

\* _ensure_browser_initialized up to its first await (139-190): the browser
\* is constructed if self.browser is None, and a context is asked for if
\* self.context is None
EnsureBrowser(t) ==
    /\ task[t].pc = "ensure"
    /\ IF browser = None
       THEN /\ browser' = NewObject
            /\ made' = [made EXCEPT !.browsers = @ + 1, !.objects = @ + 1]
       ELSE UNCHANGED <<browser, made>>
    /\ task' = [task EXCEPT ![t].pc = IF ContextMissing THEN "new_context"
                                                        ELSE "action",
                            ![t].ctx = IF ContextMissing THEN None ELSE context]
    /\ UNCHANGED <<context, dom_service, lock>>
    /\ browserFrame

\* self.context = await self.browser.new_context(context_config) (191), then
\* the DomService of the current page if there is one (194-204)
NewContext(t, page) ==
    /\ task[t].pc = "new_context"
    /\ context' = NewObject
    /\ dom_service' = IF page THEN "DomService" ELSE None
    /\ made' = [made EXCEPT !.contexts = @ + 1, !.objects = @ + 1]
    /\ task' = [task EXCEPT ![t].pc = "action", ![t].ctx = context',
                            ![t].fresh = TRUE]
    /\ UNCHANGED <<browser, lock>>
    /\ browserFrame

\* new_context raises or times out: the exception leaves
\* _ensure_browser_initialized and reaches the handlers of execute(), which
\* return an error (191, 562-569)
NewContextFails(t, e) ==
    /\ task[t].pc = "new_context"
    /\ task' = [task EXCEPT ![t].pc = "release", ![t].outcome = e,
                            ![t].result = general_handler(task[t].action, e)]
    /\ UNCHANGED <<browser, context, dom_service, lock, made>>
    /\ browserFrame

\* the branch of the action runs on the local `context` and execute()
\* returns its ToolResult (250-560)
Action(t, outcome) ==
    /\ task[t].pc = "action"
    /\ made' = [made EXCEPT !.used = task[t].ctx]
    /\ task' = [task EXCEPT ![t].pc = "release", ![t].outcome = outcome,
                            ![t].result = action_result(task[t].action,
                                                        task[t].given, outcome)]
    /\ UNCHANGED <<browser, context, dom_service, lock>>
    /\ browserFrame

\* the async with block is left, by a return or by an exception, and the
\* call is over (246, 635)
Release(t) ==
    /\ task[t].pc = "release"
    /\ lock' = IF lock = Holder(t) THEN None ELSE lock
    /\ task' = [task EXCEPT ![t] = IdleTask]
    /\ UNCHANGED <<browser, context, dom_service, made>>
    /\ browserFrame

\* async with self.lock: entered by cleanup() (635)
CleanupAcquire(t) ==
    /\ task[t].pc = "lock" /\ task[t].op = "cleanup"
    /\ LockFree
    /\ lock' = Holder(t)
    /\ task' = [task EXCEPT ![t].pc = "close_context"]
    /\ UNCHANGED <<browser, context, dom_service, made>>
    /\ browserFrame

\* faulty variant: no try around self.context.close(), whose exception
\* leaves cleanup()
after_context_close_uncaught(r, ok) ==
    IF ok THEN [r EXCEPT !.pc = "close_browser", !.outcome = "ok"]
          ELSE [r EXCEPT !.pc = "release", !.outcome = "raise",
                         !.result = Raised("close")]

\* cleanup() after self.context.close(): an exception of it is logged by
\* except Exception and cleanup() goes on to the browser (637-648)
after_context_close(r, ok) ==
    [r EXCEPT !.pc = "close_browser",
              !.outcome = IF ok THEN "ok" ELSE "raise"]

\* if self.context is not None: close it, which may raise; finally
\* self.context = None and self.dom_service = None (636-646)
CloseContext(t, ok) ==
    /\ task[t].pc = "close_context"
    /\ IF context # None
       THEN /\ context' = None /\ dom_service' = None
            /\ made' = [made EXCEPT !.contexts = 0, !.used = None]
            /\ task' = [task EXCEPT ![t] = after_context_close(task[t], ok)]
       ELSE /\ ok
            /\ task' = [task EXCEPT ![t].pc = "close_browser"]
            /\ UNCHANGED <<context, dom_service, made>>
    /\ UNCHANGED <<browser, lock>>
    /\ browserFrame

\* if self.browser is not None: close it, which may raise; finally
\* self.browser = None (648-657); cleanup() returns None
CloseBrowser(t, ok) ==
    /\ task[t].pc = "close_browser"
    /\ IF browser # None
       THEN /\ browser' = None
            /\ made' = [made EXCEPT !.browsers = 0]
       ELSE /\ ok
            /\ UNCHANGED <<browser, made>>
    /\ task' = [task EXCEPT ![t].pc = "release",
                            ![t].result = Output(<<>>)]
    /\ UNCHANGED <<context, dom_service, lock>>
    /\ browserFrame

\* the task of a call is cancelled while the call waits for the lock: the
\* CancelledError leaves the call, which never entered the block (246, 635)
CancelWaiting(t) ==
    /\ task[t].pc = "lock"
    /\ task' = [task EXCEPT ![t] = IdleTask]
    /\ UNCHANGED <<browser, context, dom_service, lock, made>>
    /\ browserFrame

\* the task of execute() is cancelled at an await of the body: the
\* CancelledError is no Exception, so no handler takes it (191, 266-558)
CancelExecute(t) ==
    /\ task[t].pc \in {"new_context", "action"}
    /\ task' = [task EXCEPT ![t].pc = "release", ![t].result = Cancelled]
    /\ UNCHANGED <<browser, context, dom_service, lock, made>>
    /\ browserFrame

\* the task of cleanup() is cancelled at one of its two awaits: the finally
\* block of that close runs and the CancelledError leaves cleanup() (638-644,
\* 650-655)
CancelCleanup(t) ==
    /\ \/ /\ task[t].pc = "close_context" /\ context # None
          /\ context' = None /\ dom_service' = None
          /\ made' = [made EXCEPT !.contexts = 0, !.used = None]
          /\ UNCHANGED browser
       \/ /\ task[t].pc = "close_browser" /\ browser # None
          /\ browser' = None
          /\ made' = [made EXCEPT !.browsers = 0]
          /\ UNCHANGED <<context, dom_service>>
    /\ task' = [task EXCEPT ![t].pc = "release", ![t].result = Cancelled]
    /\ UNCHANGED lock
    /\ browserFrame

\* get_current_state() with no argument up to its first await (579-584):
\* ctx = self.context, and an error is returned if there is none
GetStateRead(t) ==
    /\ task[t].pc = "idle"
    /\ made.states < MaxStates
    /\ made' = [made EXCEPT !.states = @ + 1]
    /\ task' = [task EXCEPT ![t] =
                  IF context = None
                  THEN IdleTask
                  ELSE [IdleTask EXCEPT !.op = "get_current_state",
                           !.pc = "get_state", !.ctx = context]]
    /\ UNCHANGED <<browser, context, dom_service, lock>>
    /\ browserFrame

\* await ctx.get_state(), the page is brought to front and photographed, and
\* the state is returned; an exception of these is returned as an error
\* (584-631).  The operations fail on a context that was closed.
GetStatePage(t, ok) ==
    /\ task[t].pc = "get_state"
    /\ ok => task[t].ctx = context
    /\ task' = [task EXCEPT ![t].pc = "state_return",
                            ![t].result =
                               IF ok THEN Output(<<"state", task[t].ctx>>)
                               ELSE Error(<<"Failed to get browser state">>)]
    /\ UNCHANGED <<browser, context, dom_service, lock, made>>
    /\ browserFrame

\* get_current_state() returns its ToolResult (628-631)
GetStateReturn(t) ==
    /\ task[t].pc = "state_return"
    /\ task' = [task EXCEPT ![t] = IdleTask]
    /\ UNCHANGED <<browser, context, dom_service, lock, made>>
    /\ browserFrame

NextBrowser ==
    \E t \in Tasks :
        \/ \E a \in BrowserActions, given \in BOOLEAN : ExecuteCall(t, a, given)
        \/ CleanupCall(t)
        \/ ExecuteAcquire(t)
        \/ EnsureBrowser(t)
        \/ \E page \in BOOLEAN : NewContext(t, page)
        \/ \E e \in Outcomes \ {"ok"} : NewContextFails(t, e)
        \/ \E outcome \in Outcomes : Action(t, outcome)
        \/ Release(t)
        \/ CleanupAcquire(t)
        \/ \E ok \in BOOLEAN : CloseContext(t, ok)
        \/ \E ok \in BOOLEAN : CloseBrowser(t, ok)
        \/ CancelWaiting(t)
        \/ CancelExecute(t)
        \/ CancelCleanup(t)
        \/ GetStateRead(t)
        \/ \E ok \in BOOLEAN : GetStatePage(t, ok)
        \/ GetStateReturn(t)

\* a BrowserUseTool just constructed
InitBrowser == Init /\ p_cwd = "/home"

SpecBrowser == InitBrowser /\ [][NextBrowser]_vars

\* C20: between two cleanups the tool makes at most one browser and at most
\* one context, each only while its field is None, and every execute() runs
\* its action on the browser and the context the earlier ones ran on.
C20_OneSession ==
    /\ made.browsers <= 1 /\ made.contexts <= 1
    /\ (browser = None) <=> (made.browsers = 0)
    /\ (context = None) <=> (made.contexts = 0)
    /\ \A t \in Tasks :
          task[t].pc = "action" =>
              /\ browser # None
              /\ task[t].ctx # None /\ task[t].ctx = context
              /\ made.used \in {None, task[t].ctx}

\* with no cleanup so far, a later execute() is about to run its action on
\* the context an earlier execute() created and used
C20_Witness ==
    /\ made.cleanups = 0 /\ made.executes >= 2
    /\ made.browsers = 1 /\ made.contexts = 1
    /\ \E t \in Tasks :
          /\ task[t].pc = "action" /\ ~task[t].fresh
          /\ task[t].ctx = context /\ made.used = context

\* execute() has run its return statement, or an exception has left its body
ExecuteOver(t) == task[t].op = "execute" /\ task[t].pc = "release"

\* C21: a call of execute() that is not cancelled returns a ToolResult and
\* no exception leaves it; the result carries an output exactly when the
\* session was there, the action is known, its required argument was given
\* and the browser operation succeeded, and an error in every other case.
C21_ErrorsAreResults ==
    \A t \in Tasks :
        ExecuteOver(t) /\ task[t].result # Cancelled =>
            LET r == task[t].result
            IN /\ r.kind \in {"output", "error"}
               /\ r.kind = "output" <=>
                     /\ task[t].ctx # None
                     /\ task[t].action \in KnownActions
                     /\ RequiresArgument(task[t].action) => task[t].given
                     /\ task[t].outcome = "ok"

\* new_context raised during the initialization and execute() is returning
\* the error the general handler made of it
C21_Witness ==
    \E t \in Tasks :
        /\ ExecuteOver(t)
        /\ task[t].ctx = None /\ task[t].outcome = "raise"
        /\ task[t].result.kind = "error"
        /\ task[t].result = general_handler(task[t].action, "raise")

\* ---------------------------------------------- BrowserUseTool: the lock
\* coroutine t is inside an async with self.lock block
InBody(t) ==
    task[t].pc \in {"ensure", "new_context", "action", "close_context",
                    "close_browser", "release"}

\* a step of the body of execute() or cleanup(), up to leaving the block
BodyStep(t) ==
    \/ EnsureBrowser(t)
    \/ \E page \in BOOLEAN : NewContext(t, page)
    \/ \E e \in Outcomes \ {"ok"} : NewContextFails(t, e)
    \/ \E outcome \in Outcomes : Action(t, outcome)
    \/ \E ok \in BOOLEAN : CloseContext(t, ok)
    \/ \E ok \in BOOLEAN : CloseBrowser(t, ok)
    \/ Release(t)

\* The holder of the lock finishes: every await of a body ends, by a value,
\* an exception or a timeout.  asyncio.Lock wakes its waiters in the order
\* they came, so a call that could enter again and again does enter.
FairSpecBrowser ==
    /\ SpecBrowser
    /\ \A t \in Tasks : WF_vars(BodyStep(t))
    /\ \A t \in Tasks : SF_vars(ExecuteAcquire(t) \/ CleanupAcquire(t))

\* at most one coroutine is inside a block, and it is the one the lock names
MutualExclusion ==
    /\ Cardinality({t \in Tasks : InBody(t)}) <= 1
    /\ \A t \in Tasks : InBody(t) <=> lock = Holder(t)

\* C22: at any time at most one body of execute() or cleanup() is in
\* progress on the tool and the lock is held exactly while it is, whichever
\* way the body is left; and a call waiting for the lock stops waiting once
\* the holders finish.
C22_BodiesExclusive ==
    /\ []MutualExclusion
    /\ \A t \in Tasks : (task[t].pc = "lock") ~> (task[t].pc # "lock")

\* a call waits for the lock while the body of another one, cancelled at an
\* await, is about to leave the block by the exception
C22_Witness ==
    \E t, u \in Tasks :
        /\ task[t].pc = "release" /\ task[t].result = Cancelled
        /\ lock = Holder(t)
        /\ task[u].pc = "lock"

\* cleanup() has run to its end, or an exception has left its body
CleanupOver(t) == task[t].op = "cleanup" /\ task[t].pc = "release"

\* when cleanup() is over and was not cancelled, it has returned and the
\* three fields are None
CleanupLeavesNothing ==
    \A t \in Tasks :
        CleanupOver(t) /\ task[t].result # Cancelled =>
            /\ task[t].result.kind = "output"
            /\ browser = None /\ context = None /\ dom_service = None

\* a step taken while cleanup() runs on a tool whose fields are None leaves
\* them None
CleanupAgainNoOp ==
    (/\ \E t \in Tasks : task[t].op = "cleanup" /\ InBody(t)
     /\ browser = None /\ context = None /\ dom_service = None)
        => UNCHANGED <<browser, context, dom_service>>

\* C23: a cleanup() that is not cancelled returns without raising and leaves
\* browser, context and dom_service None, whether or not closing the context
\* or the browser raised, the browser being closed also after the context
\* failed to close; a cleanup() of a tool whose fields are None changes
\* nothing.
C23_CleanupClears == []CleanupLeavesNothing /\ [][CleanupAgainNoOp]_vars

\* cleanup() found a context and a browser, closing the context raised, and
\* cleanup() is returning with the three fields None
C23_Witness ==
    \E t \in Tasks :
        /\ CleanupOver(t)
        /\ task[t].outcome = "raise" /\ task[t].result = Output(<<>>)
        /\ made.objects >= 2
        /\ browser = None /\ context = None /\ dom_service = None

\* get_current_state() has read ctx and its page operations are not over
ReadingState(t) == task[t].op = "get_current_state" /\ task[t].pc = "get_state"

\* C24: while get_current_state() is between reading the context and the
\* end of its page operations, the context it read is still the context of
\* the tool: no cleanup() has closed it and no execute() has replaced it.
C24_StateContextStable ==
    \A t \in Tasks : ReadingState(t) => task[t].ctx = context

\* ----------------------------------------------------- checklist tools
\* Calls, one after another, of AddChecklistTaskTool.execute() and
\* UpdateChecklistTaskTool.execute() on one stored checklist.  The manager
\* keeps one status per description: _load_checklist reads the stored
\* tasks, get_task_by_description finds the task of that description among
\* the loaded ones, add_task stores a task that is not there, and
\* update_task_status stores the new status of a task that is.
checklistFrame == UNCHANGED <<pyVars, inv, browserVars>>

\* ChecklistManager, the task store: what _load_checklist reads of the
\* stored checklist c
load_checklist(c) == c

\* manager.get_task_by_description(d) on the loaded tasks: the status of the
\* task of that description, None if there is none
get_task_by_description(tasks, d) == tasks[d]

\* manager.add_task(d, s): the checklist with the task stored, unless a task
\* of that description is there
add_task(c, d, s) == IF c[d] = None THEN [c EXCEPT ![d] = s] ELSE c

\* manager.update_task_status(d, s): the checklist with the new status of
\* the task stored
update_task_status(c, d, s) == [c EXCEPT ![d] = s]

\* the call in progress, its counters carried over
NewUpdate(d, s) ==
    [upd EXCEPT !.pc = "load", !.task_description = d, !.new_status = s,
                !.tasks = [x \in Descriptions |-> None],
                !.task_to_update = None, !.result = "none", !.updates = 0,
                !.loaded = FALSE, !.before = checklist, !.made = @ + 1]

\* AddChecklistTaskTool.execute(task_description, status) (56-82): a status
\* outside the enum raises ToolError, and add_task stores the task unless
\* one of that description is there
AddTask(d, s) ==
    /\ upd.pc \in {"idle", "over"}
    /\ upd.added < MaxAdds
    /\ checklist' = IF s \in AllowedStatuses THEN add_task(checklist, d, s)
                                              ELSE checklist
    /\ upd' = [upd EXCEPT !.pc = "idle", !.added = @ + 1,
                          !.before = checklist', !.updates = 0,
                          !.loaded = FALSE, !.result = "none"]
    /\ checklistFrame

\* execute(task_description, new_status) up to its first await (104-114):
\* a new_status outside the enum raises ToolError
UpdateCall(d, s) ==
    /\ upd.pc \in {"idle", "over"}
    /\ upd.made < MaxUpdates
    /\ upd' = IF s \in AllowedStatuses
              THEN NewUpdate(d, s)
              ELSE [NewUpdate(d, s) EXCEPT !.pc = "over", !.result = "ToolError"]
    /\ UNCHANGED checklist
    /\ checklistFrame

\* manager = ChecklistManager(); await manager._load_checklist() (114-115);
\* what it raises becomes a ToolError (136-138)
UpdateLoad(ok) ==
    /\ upd.pc = "load"
    /\ upd' = IF ok THEN [upd EXCEPT !.pc = "lookup", !.loaded = TRUE,
                                     !.tasks = load_checklist(checklist)]
                    ELSE [upd EXCEPT !.pc = "over", !.result = "ToolError"]
    /\ UNCHANGED checklist
    /\ checklistFrame

\* faulty variant: the status of the task is not compared with new_status
already_has_status_unchecked(status, new_status) == FALSE

\* if task_to_update['status'] == new_status: (123)
already_has_status(status, new_status) == status = new_status

\* task_to_update = manager.get_task_by_description(...) and the two early
\* returns (119-124)
UpdateLookup ==
    /\ upd.pc = "lookup"
    /\ LET found == get_task_by_description(upd.tasks, upd.task_description)
       IN upd' = IF found = None
                 THEN [upd EXCEPT !.pc = "over", !.result = "not found"]
                 ELSE IF already_has_status(found, upd.new_status)
                 THEN [upd EXCEPT !.pc = "over", !.task_to_update = found,
                                  !.result = "no change"]
                 ELSE [upd EXCEPT !.pc = "update", !.task_to_update = found]
    /\ UNCHANGED checklist
    /\ checklistFrame

\* success = await manager.update_task_status(...) and the returns after it
\* (126-132); what it raises becomes a ToolError (136-138)
UpdateStatus(how) ==
    /\ upd.pc = "update"
    /\ checklist' = IF how = "stored"
                    THEN update_task_status(checklist, upd.task_description,
                                            upd.new_status)
                    ELSE checklist
    /\ upd' = [upd EXCEPT !.pc = "over", !.updates = @ + 1,
                          !.result = CASE how = "stored" -> "updated"
                                       [] how = "refused" -> "failed"
                                       [] how = "raised" -> "ToolError"]
    /\ checklistFrame

NextChecklist ==
    \/ \E d \in Descriptions, s \in Statuses : AddTask(d, s)
    \/ \E d \in Descriptions, s \in Statuses : UpdateCall(d, s)
    \/ \E ok \in BOOLEAN : UpdateLoad(ok)
    \/ UpdateLookup
    \/ \E how \in {"stored", "refused", "raised"} : UpdateStatus(how)

\* an empty checklist, no tool called yet
InitChecklist == Init /\ p_cwd = "/home"

SpecChecklist == InitChecklist /\ [][NextChecklist]_vars

\* the call of the update tool is over, by a return or by a ToolError
UpdateOver == upd.pc = "over"

\* C25: a call of the update tool whose new_status is not allowed raises
\* ToolError without loading the checklist; a call naming no stored task, or
\* a task that has the requested status, returns; none of the three calls
\* update_task_status or changes the checklist, and update_task_status is
\* called, once, only for a stored task whose status differs from
\* new_status.
C25_UpdateOnlyWhenDue ==
    /\ upd.pc \in {"load", "lookup", "update"} =>
          /\ checklist = upd.before /\ upd.updates = 0
          /\ upd.new_status \in AllowedStatuses
    /\ upd.pc = "update" =>
          upd.before[upd.task_description] \notin {None, upd.new_status}
    /\ UpdateOver =>
          LET was == upd.before[upd.task_description]
          IN /\ upd.updates <= 1
             /\ upd.new_status \notin AllowedStatuses =>
                   upd.result = "ToolError" /\ ~upd.loaded
             /\ (\/ upd.new_status \notin AllowedStatuses
                 \/ was = None
                 \/ was = upd.new_status) =>
                   upd.updates = 0 /\ checklist = upd.before
             /\ upd.updates = 1 =>
                   /\ was \notin {None, upd.new_status}
                   /\ upd.new_status \in AllowedStatuses
             /\ checklist # upd.before => upd.updates = 1

\* the update tool was asked for the status a stored task has, and returned
\* without a call of update_task_status and with the checklist as it was
C25_Witness ==
    /\ UpdateOver /\ upd.result = "no change"
    /\ upd.task_to_update = upd.new_status
    /\ checklist[upd.task_description] = upd.new_status
    /\ upd.updates = 0 /\ checklist = upd.before

====
